---- MODULE Spec2Model ----
(***************************************************************************)
(* State-machine model of scripts/strip_control.py and                     *)
(* scripts/plug_control.py: discovery by alias (init), the sequential      *)
(* switch operations (turn_on / turn_off), state capture and restore       *)
(* (gather_state / restore_state), the timed toggle loop (blink) and the   *)
(* dispatcher (main_loop) with the two command-line front ends (main).     *)
(*                                                                         *)
(* Every `await` of the source is one step of the model: the code between  *)
(* two awaits runs without interleaving on the single asyncio task, so it  *)
(* is folded into the step of the await that precedes it.                  *)
(*                                                                         *)
(* The kasa device calls are modelled at their call sites:                 *)
(*   plug.turn_on()/turn_off()  sets the relay of that one outlet; a call  *)
(*                              that raises has not switched the relay;    *)
(*   plug.update()              copies the relay state into the cached     *)
(*                              is_on of that outlet; a call that raises   *)
(*                              leaves the cache as it was.                *)
(* Any device call may raise.  A device call made inside the toggle loop   *)
(* takes 0..MaxLatency seconds of wall-clock time.                         *)
(***************************************************************************)
EXTENDS Integers, Sequences, FiniteSets, TLC

\* ---------------------------------------------------------------- bounds
MaxDevices == 2      \* devices returned by one Discover.discover()
MaxOutlets == 3      \* children of a strip
MaxLatency == 1      \* seconds one device call may take inside the loop
MaxMinutes == 1      \* largest blink duration requested

\* ------------------------------------------------------ program constants
BLINK_DELAY_SECS == 5
SecondsPerMinute == 60

\* ------------------------------------------------------------ input sets
Entries     == {"plug", "strip"}            \* which script is run
Aliases     == {"lamp", "Lamp", "desk"}     \* aliases devices may carry
TargetNames == {"lamp"}                     \* positional argument 1
SwitchArgs  == {"on", "ON", "Off", "off", "toggle"}   \* positional argument 2
Kinds       == {"plug", "strip"}            \* SmartPlug / SmartStrip

None == << >>                               \* Python None (Optional[int])
Some(m) == << m >>
IsNone(x) == x = None
Val(x) == x[1]

Device == [alias : Aliases, kind : Kinds]
NoDevice == [alias |-> "", kind |-> "None"] \* init returned None

DeviceLists == UNION { [1..k -> Device] : k \in 0..MaxDevices }

MinutesArgs == (0 - 1)..MaxMinutes          \* argparse type=int accepts -1, 0

VARIABLES
  entry,          \* "plug" | "strip": the script being run
  pc,             \* position of the single asyncio task
  result,         \* what main_loop handed to asyncio.run: "pending", "True",
                  \* "False", or "raised" (an exception escaped main_loop)
  target,         \* target_strip / target_alias
  switch_on,      \* global switch_on / parameter of main_loop
  blink_minutes,  \* parameter of main_loop: None or Some(int)
  blink_given,    \* whether the request carried a blink duration (-b ...)
  via_main,       \* whether main_loop was started by main (history)
  exit_status,    \* exit status of the script: None while it runs
  found,          \* init: Discover.discover() result, in enumeration order
  fi,             \* init: index of the device the for loop is at
  alias_seen,     \* whether some discovered device carries the target alias
  discovered,     \* whether Discover.discover() has been called
  strip_found,    \* main_loop: the device init returned, or NoDevice
  real,           \* relay state of each outlet of the returned device
  cached,         \* is_on of each outlet as of its last update()
  orig,           \* relay states when the device was resolved (history)
  save_state,     \* blink: list[PlugState] built by gather_state
  toggle,         \* blink: the toggle flag
  elapsed,        \* blink: time.time() - start_time
  toggles,        \* number of toggle applications started (history)
  idx,            \* index of the outlet the running for loop is at
  op,             \* "on" | "off": which of turn_on / turn_off is running
  ctx,            \* caller of the running turn_on / turn_off
  ran,            \* functions entered so far (history)
  mut_issued,     \* whether any turn_on()/turn_off() device call was issued
  last_mut_by,    \* function that issued the latest mutating device call
  failed,         \* the device call that raised, if any (history)
  cancelled       \* whether the task was cancelled in asyncio.sleep

reqVars   == << entry, target, switch_on, blink_minutes, blink_given,
               via_main, exit_status >>
scanVars  == << found, fi, alias_seen, discovered >>
devVars   == << strip_found, real, cached, orig >>
blinkVars == << save_state, toggle, elapsed, toggles >>
ctlVars   == << pc, result, idx, op, ctx >>
obsVars   == << ran, mut_issued, last_mut_by, failed, cancelled >>
vars == << reqVars, scanVars, devVars, blinkVars, ctlVars, obsVars >>

NoFailure == [fn |-> "none", ctx |-> "none", idx |-> 0, call |-> "none"]

Init ==
  /\ entry \in Entries
  /\ pc = "start"
  /\ result = "pending"
  /\ target = ""
  /\ switch_on = FALSE
  /\ blink_minutes = None
  /\ blink_given = FALSE
  /\ via_main = FALSE
  /\ exit_status = None
  /\ found = << >>
  /\ fi = 0
  /\ alias_seen = FALSE
  /\ discovered = FALSE
  /\ strip_found = NoDevice
  /\ real = << >>
  /\ cached = << >>
  /\ orig = << >>
  /\ save_state = << >>
  /\ toggle = TRUE
  /\ elapsed = 0
  /\ toggles = 0
  /\ idx = 0
  /\ op = "none"
  /\ ctx = "none"
  /\ ran = {}
  /\ mut_issued = FALSE
  /\ last_mut_by = "none"
  /\ failed = NoFailure
  /\ cancelled = FALSE

\* ------------------------------------------------------------------ main
\* str.lower() on the spellings of SwitchArgs
Lower(s) ==
  CASE s = "ON"  -> "on"
    [] s = "Off" -> "off"
    [] OTHER     -> s

\* strip_control.main: --blink_mode is a store_true flag, so args.blink_mode
\* is False or True, never None, and blink_minutes = int(args.blink_mode).
StripBlinkMinutes(flag) == Some(IF flag THEN 1 ELSE 0)

\* plug_control.main: --blink_mode has type=int and default None; the value
\* is handed to main_loop as it is.
PlugBlinkMinutes(arg) == arg

StartMainLoop(name, sw, bm, given, from_main) ==
  /\ pc = "start"
  /\ via_main' = from_main
  /\ target' = name
  /\ switch_on' = sw
  /\ blink_minutes' = bm
  /\ blink_given' = given
  /\ pc' = "discover"
  /\ UNCHANGED << entry, exit_status, result, idx, op, ctx >>
  /\ UNCHANGED << scanVars, devVars, blinkVars, obsVars >>

strip_main ==
  /\ entry = "strip"
  /\ \E name \in TargetNames, switch \in SwitchArgs, flag \in BOOLEAN :
       StartMainLoop(name, Lower(switch) = "on", StripBlinkMinutes(flag), flag,
                     TRUE)

plug_main ==
  /\ entry = "plug"
  /\ \E name \in TargetNames, switch \in SwitchArgs,
        arg \in {None} \cup { Some(m) : m \in MinutesArgs } :
       StartMainLoop(name, Lower(switch) = "on", PlugBlinkMinutes(arg),
                     ~IsNone(arg), TRUE)

\* main_loop called with arguments of its own signature (str, bool,
\* Optional[int]) rather than through main.
main_loop_call ==
  /\ entry \in Entries
  /\ \E name \in TargetNames, sw \in BOOLEAN,
        bm \in {None} \cup { Some(m) : m \in MinutesArgs } :
       StartMainLoop(name, sw, bm, ~IsNone(bm), FALSE)


\* -------------------------------------------------- exceptions (main_loop)
\* What main_loop does with an exception raised inside its try block.
\* plug_control: `except Exception as e: ... return False`.
\* strip_control: `except e:`; the name e is bound nowhere, so evaluating the
\* clause raises NameError and that error leaves main_loop.
ExceptClauseReturnsTrue(e) == "True"
ExceptClause(e) == IF e = "plug" THEN "False" ELSE "raised"

\* A device call at the current position raised.
Raise(fn, call, mutating) ==
  /\ failed' = [fn |-> fn, ctx |-> ctx, idx |-> idx, call |-> call]
  /\ result' = ExceptClause(entry)
  /\ pc' = "done"
  /\ mut_issued' = (mut_issued \/ mutating)
  /\ last_mut_by' = IF mutating THEN fn ELSE last_mut_by
  /\ UNCHANGED << idx, op, ctx, ran, cancelled >>
  /\ UNCHANGED << reqVars, scanVars, devVars, blinkVars >>

\* ------------------------------------------------------------------ init
IsStrip(d) == d.kind = "strip"

\* plug_control.init: isinstance(device, SmartPlug) and alias == target_alias
PlugMatchAnyAlias(d, t) == d.kind = "plug"
PlugMatch(d, t) == d.kind = "plug" /\ d.alias = t

\* strip_control.init: smart_device.alias == target_strip (inside is_strip)
StripMatchIgnoreCase(d, t) ==
  (IF d.alias = "Lamp" THEN "lamp" ELSE d.alias) = t
StripMatch(d, t) == d.alias = t

\* Outlets of a resolved device: strip.children, or the plug itself.
NumOutlets(d) == IF IsStrip(d) THEN 1..MaxOutlets ELSE {1}

\* main_loop after init: `if blink_minutes != None` / `is not None` first,
\* then switch_on.
Dispatch(bm, sw) ==
  IF ~IsNone(bm) THEN "blink" ELSE IF sw THEN "on" ELSE "off"

\* init returns None: main_loop returns False.
InitReturnsNoneReportsTrue ==
  /\ result' = "True"
  /\ pc' = "done"
  /\ UNCHANGED << found, fi, idx, op, ctx, alias_seen >>
  /\ UNCHANGED << reqVars, devVars, blinkVars, obsVars >>
InitReturnsNone ==
  /\ result' = "False"
  /\ pc' = "done"
  /\ UNCHANGED << found, fi, idx, op, ctx, alias_seen >>
  /\ UNCHANGED << reqVars, devVars, blinkVars, obsVars >>

\* init returns device d (of init's locals only d lives on): main_loop
\* dispatches and runs up to the first await of blink (gather_state's
\* plug.update()) or of turn_on / turn_off.
InitReturns(d) ==
  /\ found' = << >>
  /\ fi' = 0
  /\ strip_found' = d
  /\ \E n \in NumOutlets(d) : \E st \in [1..n -> BOOLEAN] :
       /\ real' = st
       /\ cached' = st
       /\ orig' = st
  /\ idx' = 1
  /\ LET what == Dispatch(blink_minutes, switch_on) IN
       IF what = "blink"
       THEN /\ pc' = "gather"
            /\ ran' = ran \cup {"blink", "gather_state"}
            /\ UNCHANGED << op, ctx >>
       ELSE /\ pc' = "cmd"
            /\ op' = what
            /\ ctx' = "main_loop"
            /\ ran' = ran \cup {"direct"}
  /\ UNCHANGED << result, alias_seen, mut_issued, last_mut_by, failed,
                  cancelled >>
  /\ UNCHANGED << reqVars, blinkVars >>

\* The for loop of init moves to the next device, or falls out of the loop.
ScanNext ==
  IF fi < Len(found)
  THEN /\ fi' = fi + 1
       /\ pc' = "scan"
       /\ UNCHANGED << found, alias_seen, result, idx, op, ctx >>
       /\ UNCHANGED << reqVars, devVars, blinkVars, obsVars >>
  ELSE InitReturnsNone

\* found = await Discover.discover(); an empty mapping is a valid result.
init_discover ==
  /\ pc = "discover"
  /\ discovered' = TRUE
  /\ \E ds \in DeviceLists :
       /\ alias_seen' = \E i \in 1..Len(ds) : ds[i].alias = target
       /\ IF ds = << >>
          THEN /\ found' = << >>
               /\ fi' = 0
               /\ result' = "False"
               /\ pc' = "done"
          ELSE /\ found' = ds
               /\ fi' = 1
               /\ pc' = "scan"
               /\ UNCHANGED result
  /\ UNCHANGED << idx, op, ctx >>
  /\ UNCHANGED << reqVars, devVars, blinkVars, obsVars >>

\* await device.update() at the head of the loop body, then the match test
\* (plug_control) or the is_strip test (strip_control).
init_update ==
  /\ pc = "scan"
  /\ UNCHANGED discovered
  /\ \/ Raise("init", "update", FALSE)
     \/ IF entry = "plug"
        THEN IF PlugMatch(found[fi], target)
             THEN InitReturns(found[fi])
             ELSE ScanNext
        ELSE IF IsStrip(found[fi])
             THEN /\ pc' = "scan_strip"
                  /\ UNCHANGED << found, fi, alias_seen, result, idx, op, ctx >>
                  /\ UNCHANGED << reqVars, devVars, blinkVars, obsVars >>
             ELSE ScanNext

\* strip_control.init only: the second await smart_device.update() inside
\* `if smart_device.is_strip`, then the alias test.
init_strip_update ==
  /\ pc = "scan_strip"
  /\ UNCHANGED discovered
  /\ \/ Raise("init", "update", FALSE)
     \/ IF StripMatch(found[fi], target)
        THEN InitReturns(found[fi])
        ELSE ScanNext


\* ------------------------------------------------------- the device calls
\* await plug.turn_on() / plug.turn_off() on outlet i that returns normally
ApplyCmdAll(st, i, v) == [j \in DOMAIN st |-> v]
ApplyCmd(st, i, v) == [st EXCEPT ![i] = v]

\* await plug.update() on outlet i that returns normally
RefreshSkipped(c, st, i) == c
Refresh(c, st, i) == [c EXCEPT ![i] = st[i]]

\* Wall-clock time a device call takes where the time is read again
\* afterwards (inside `while time.time() - start_time < duration_seconds`).
Latency(c) == IF c = "blink" THEN 0..MaxLatency ELSE {0}

FnOf(o) == IF o = "on" THEN "turn_on" ELSE "turn_off"

\* The relay value the running function commands: turn_on calls
\* plug.turn_on(), turn_off calls plug.turn_off().
CmdValueAlwaysOn(o) == TRUE
CmdValue(o) == o = "on"

\* ----------------------------------------------------------------- blink
\* The list of PlugState after a plug.update() that left the cached states c:
\* PlugState(plug, plug.is_on) stored the bool read at capture time, so a
\* later change of plug.is_on leaves every PlugState.state as it was.
PlugStatesFollowLive(ss, c) ==
  [i \in DOMAIN ss |-> [ss[i] EXCEPT !.state = c[ss[i].plug]]]
PlugStatesAfterUpdate(ss, c) == ss

\* `while time.time() - start_time < duration_seconds`
LoopCondInclusive(el, minutes) == el <= minutes * SecondsPerMinute
LoopCondInMinutes(el, minutes) == el < minutes
LoopCond(el, minutes) == el < minutes * SecondsPerMinute

\* `if toggle: await turn_on(strip) else: await turn_off(strip)`
ToggleOpInverted(tg) == IF tg THEN "off" ELSE "on"
ToggleOp(tg) == IF tg THEN "on" ELSE "off"

\* The while test with el seconds elapsed and toggle flag tg, and the code
\* that follows it up to the next await: the first plug.turn_on()/turn_off()
\* of the toggle application, or the first one of restore_state.
LoopStep(el, tg) ==
  /\ elapsed' = el
  /\ toggle' = tg
  /\ idx' = 1
  /\ IF LoopCond(el, Val(blink_minutes))
     THEN /\ pc' = "cmd"
          /\ op' = ToggleOp(tg)
          /\ ctx' = "blink"
          /\ toggles' = toggles + 1
          /\ ran' = ran \cup {"toggle"}
     ELSE /\ pc' = "restore_cmd"
          /\ op' = "none"
          /\ ctx' = "none"
          /\ ran' = ran \cup {"restore_state"}
          /\ UNCHANGED toggles

\* gather_state: await plug.update(); append PlugState(plug, plug.is_on).
\* After the last child blink takes start_time and tests the loop condition.
gather_state ==
  /\ pc = "gather"
  /\ \/ Raise("gather_state", "update", FALSE)
     \/ /\ cached' = Refresh(cached, real, idx)
        /\ save_state' = Append(save_state,
                                [plug |-> idx, state |-> cached'[idx]])
        /\ IF idx < Len(real)
           THEN /\ idx' = idx + 1
                /\ UNCHANGED << pc, op, ctx, ran, toggle, elapsed, toggles >>
           ELSE LoopStep(0, TRUE)
        /\ UNCHANGED << result, strip_found, real, orig, mut_issued,
                        last_mut_by, failed, cancelled >>
        /\ UNCHANGED << reqVars, scanVars >>

\* turn_on / turn_off: await plug.turn_on() / plug.turn_off() on child idx
turn_cmd ==
  /\ pc = "cmd"
  /\ \/ Raise(FnOf(op), "command", TRUE)
     \/ /\ real' = ApplyCmd(real, idx, CmdValue(op))
        /\ \E d \in Latency(ctx) : elapsed' = elapsed + d
        /\ mut_issued' = TRUE
        /\ last_mut_by' = FnOf(op)
        /\ pc' = "upd"
        /\ UNCHANGED << result, idx, op, ctx, strip_found, cached, orig,
                        save_state, toggle, toggles, ran, failed, cancelled >>
        /\ UNCHANGED << reqVars, scanVars >>

\* turn_on / turn_off: await plug.update() on child idx; then the next child,
\* or the return to the caller: main_loop returns True, blink flips the
\* toggle flag and awaits asyncio.sleep(BLINK_DELAY_SECS).
turn_update ==
  /\ pc = "upd"
  /\ \/ Raise(FnOf(op), "update", FALSE)
     \/ /\ cached' = Refresh(cached, real, idx)
        /\ \E d \in Latency(ctx) : elapsed' = elapsed + d
        /\ IF idx < Len(real)
           THEN /\ idx' = idx + 1
                /\ pc' = "cmd"
                /\ UNCHANGED << result, op, ctx, toggle >>
           ELSE IF ctx = "main_loop"
           THEN /\ idx' = 0
                /\ pc' = "done"
                /\ result' = "True"
                /\ UNCHANGED << op, ctx, toggle >>
           ELSE /\ idx' = 0
                /\ pc' = "sleep"
                /\ toggle' = ~toggle
                /\ UNCHANGED << result, op, ctx >>
        /\ save_state' = PlugStatesAfterUpdate(save_state, cached')
        /\ UNCHANGED << strip_found, real, orig, toggles >>
        /\ UNCHANGED << reqVars, scanVars, obsVars >>

\* await asyncio.sleep(BLINK_DELAY_SECS) returns; the while test follows.
blink_sleep ==
  /\ pc = "sleep"
  /\ LoopStep(elapsed + BLINK_DELAY_SECS, toggle)
  /\ UNCHANGED << result, save_state, mut_issued, last_mut_by, failed,
                  cancelled >>
  /\ UNCHANGED << reqVars, scanVars, devVars >>

\* The task is cancelled while suspended in asyncio.sleep: CancelledError is
\* raised at line 93 / 82.  blink has no try/finally and no signal or atexit
\* handler is installed; CancelledError is not an Exception, so plug_control's
\* `except Exception` lets it pass, and strip_control's `except e` raises
\* NameError.  Either way an exception leaves main_loop.
blink_cancel ==
  /\ pc = "sleep"
  /\ cancelled' = TRUE
  /\ result' = "raised"
  /\ pc' = "done"
  /\ UNCHANGED << idx, op, ctx, ran, mut_issued, last_mut_by, failed >>
  /\ UNCHANGED << reqVars, scanVars, devVars, blinkVars >>

\* restore_state: the value a PlugState is restored to
RestoreValueOn(ps) == TRUE
RestoreValueNegated(ps) == ~ps.state
RestoreValue(ps) == ps.state

\* main_loop after blink returned: strip_control `return True`;
\* plug_control leaves the if/elif chain and reaches `return True`.
AfterBlinkThenSwitch(e, sw) == IF sw THEN "on" ELSE "off"
AfterBlink(e, sw) == "return"

\* restore_state: await plug_state.plug.turn_on() / turn_off()
restore_cmd ==
  /\ pc = "restore_cmd"
  /\ \/ Raise("restore_state", "command", TRUE)
     \/ /\ real' = ApplyCmd(real, save_state[idx].plug,
                            RestoreValue(save_state[idx]))
        /\ mut_issued' = TRUE
        /\ last_mut_by' = "restore_state"
        /\ pc' = "restore_upd"
        /\ UNCHANGED << result, idx, op, ctx, strip_found, cached, orig,
                        ran, failed, cancelled >>
        /\ UNCHANGED << reqVars, scanVars, blinkVars >>

\* restore_state: await plug_state.plug.update(); then the next PlugState, or
\* the return through blink to main_loop.
restore_update ==
  /\ pc = "restore_upd"
  /\ \/ Raise("restore_state", "update", FALSE)
     \/ /\ cached' = Refresh(cached, real, save_state[idx].plug)
        /\ IF idx < Len(save_state)
           THEN /\ idx' = idx + 1
                /\ pc' = "restore_cmd"
                /\ UNCHANGED << result, op, ctx, ran >>
           ELSE LET nxt == AfterBlink(entry, switch_on) IN
                IF nxt = "return"
                THEN /\ idx' = 0
                     /\ pc' = "done"
                     /\ result' = "True"
                     /\ UNCHANGED << op, ctx, ran >>
                ELSE /\ idx' = 1
                     /\ pc' = "cmd"
                     /\ op' = nxt
                     /\ ctx' = "main_loop"
                     /\ ran' = ran \cup {"direct"}
                     /\ UNCHANGED result
        /\ save_state' = PlugStatesAfterUpdate(save_state, cached')
        /\ UNCHANGED << strip_found, real, orig, mut_issued, last_mut_by,
                        failed, cancelled >>
        /\ UNCHANGED << toggle, elapsed, toggles >>
        /\ UNCHANGED << reqVars, scanVars >>

\* main after asyncio.run: the status is logged and main returns, so the
\* interpreter exits with status 0 whatever main_loop returned; an exception
\* that left main_loop comes out of asyncio.run and main uncaught, and the
\* interpreter exits with status 1.
ExitStatus(res) == IF res = "raised" THEN 1 ELSE 0

main_exit ==
  /\ pc = "done"
  /\ via_main
  /\ pc' = "exited"
  /\ exit_status' = Some(ExitStatus(result))
  /\ UNCHANGED << entry, target, switch_on, blink_minutes, blink_given,
                  via_main, result, idx, op, ctx >>
  /\ UNCHANGED << scanVars, devVars, blinkVars, obsVars >>

\* ------------------------------------------------------- specification
Next ==
  \/ strip_main
  \/ plug_main
  \/ main_loop_call
  \/ init_discover
  \/ init_update
  \/ init_strip_update
  \/ gather_state
  \/ turn_cmd
  \/ turn_update
  \/ blink_sleep
  \/ blink_cancel
  \/ restore_cmd
  \/ restore_update
  \/ main_exit

Spec == Init /\ [][Next]_vars

\* The runs of the two scripts (main_loop started by main) in which no device
\* call raises and the task is not cancelled.
\* The event loop runs its single task until it finishes and every await of
\* such a run returns, so a step that is possible is eventually taken.
FailureFreeNext ==
  \/ strip_main
  \/ plug_main
  \/ init_discover
  \/ init_update /\ failed' = NoFailure
  \/ init_strip_update /\ failed' = NoFailure
  \/ gather_state /\ failed' = NoFailure
  \/ turn_cmd /\ failed' = NoFailure
  \/ turn_update /\ failed' = NoFailure
  \/ blink_sleep
  \/ restore_cmd /\ failed' = NoFailure
  \/ restore_update /\ failed' = NoFailure
  \/ main_exit

FairSpec == Init /\ [][FailureFreeNext]_vars /\ WF_vars(FailureFreeNext)


\* ------------------------------------------------------------ properties
Done == pc \in {"done", "exited"}
Found == strip_found # NoDevice
DurationSeconds == Val(blink_minutes) * SecondsPerMinute
LoopExited == "restore_state" \in ran
SessionCompleted == Done /\ result = "True" /\ "blink" \in ran

\* C1: if the task is cancelled while the toggle loop is suspended in its
\* inter-toggle delay, restore_state runs on the captured snapshot before the
\* process exits and every outlet ends in its captured pre-blink state.
C1_CancelRestores ==
  (Done /\ cancelled) =>
     /\ "restore_state" \in ran
     /\ \A i \in 1..Len(real) : real[i] = save_state[i].state

\* C2: if a device call fails during the toggle loop (after the snapshot was
\* taken), restore_state still issues its commands before the session ends,
\* and the session reports failure.
C2_ToggleFailureRestores ==
  (Done /\ failed.ctx = "blink") =>
     /\ "restore_state" \in ran
     /\ result \in {"False", "raised"}

\* C3: a blink session that runs without failure or cancellation ends with
\* every outlet (relay and refreshed is_on) in the state gather_state captured
\* for it before the first toggle, for an even and for an odd number of
\* toggle applications.
C3_SessionRestoresCaptured ==
  SessionCompleted =>
     /\ Len(save_state) = Len(real)
     /\ \A i \in 1..Len(real) :
          /\ save_state[i] = [plug |-> i, state |-> orig[i]]
          /\ real[i] = save_state[i].state
          /\ cached[i] = save_state[i].state

C3_Witness ==
  /\ SessionCompleted
  /\ toggles % 2 = 1
  /\ orig = << TRUE, FALSE, TRUE >>
  /\ real = orig

\* C4 (as claimed): the number of toggle applications of a session of
\* D = minutes*60 seconds is floor(D / BLINK_DELAY_SECS); 12 for one minute.
C4_ToggleCountIsFloor ==
  (LoopExited /\ Val(blink_minutes) >= 0) =>
     toggles = DurationSeconds \div BLINK_DELAY_SECS

\* C4 (amended): the number of toggle applications is at most
\* floor(D / BLINK_DELAY_SECS) and at least 1 when D > 0; it equals the floor
\* when the device calls of the loop took no wall-clock time (the elapsed
\* time at loop exit is then exactly toggles * BLINK_DELAY_SECS).
C4_ToggleCountAtMostFloor ==
  (LoopExited /\ Val(blink_minutes) >= 0) =>
     /\ toggles <= DurationSeconds \div BLINK_DELAY_SECS
     /\ (DurationSeconds > 0 => toggles >= 1)
     /\ elapsed >= toggles * BLINK_DELAY_SECS
     /\ (elapsed = toggles * BLINK_DELAY_SECS =>
           toggles = DurationSeconds \div BLINK_DELAY_SECS)

C4_Witness ==
  /\ SessionCompleted
  /\ blink_minutes = Some(1)
  /\ toggles = 11

\* C5: when no discovered device carries the target alias, no turn_on /
\* turn_off device call is ever issued, init hands no device to main_loop,
\* and a scan that completes makes main_loop return False.
C5_NoMatchNoMutation ==
  (discovered /\ ~alias_seen) =>
     /\ ~mut_issued
     /\ ~Found
     /\ (Done /\ failed = NoFailure => result = "False")

C5_Witness ==
  /\ Done
  /\ ~alias_seen
  /\ Len(found) = 2
  /\ fi = 2
  /\ failed = NoFailure
  /\ result = "False"
  /\ ~mut_issued

\* C6: a request without a blink duration runs no blink session in either
\* script: no gather_state, toggle loop or restore_state, and the requested
\* terminal state is applied to every outlet.
C6_NoDurationNoBlink ==
  (via_main /\ ~blink_given /\ Found) =>
     /\ ran \cap {"blink", "gather_state", "toggle", "restore_state"} = {}
     /\ (Done /\ result = "True" =>
           \A i \in 1..Len(real) : real[i] = switch_on)

\* C7: when a device call fails in a direct turn_on / turn_off, main_loop
\* returns False to its caller.
C7_DirectFailureReturnsFalse ==
  (Done /\ failed.ctx = "main_loop") => result = "False"

\* C8: when the command on outlet i fails in a direct turn_on / turn_off,
\* the outlets before i hold the new state, outlet i and those after it keep
\* the state they had, and no further command is issued.
C8_PartialProgressKept ==
  (failed.ctx = "main_loop" /\ failed.call = "command") =>
     /\ Done
     /\ idx = failed.idx
     /\ \A j \in 1..Len(real) :
          real[j] = IF j < failed.idx THEN (op = "on") ELSE orig[j]

C8_Witness ==
  /\ failed = [fn |-> "turn_off", ctx |-> "main_loop", idx |-> 2,
               call |-> "command"]
  /\ orig = << TRUE, FALSE, TRUE >>
  /\ real = << FALSE, FALSE, TRUE >>

\* C9: a request whose blink duration is zero or negative is rejected before
\* discovery: Discover.discover is not called and no device call is issued.
C9_NonPositiveRejected ==
  (via_main /\ blink_given /\ Val(blink_minutes) <= 0) =>
     /\ ~discovered
     /\ ~mut_issued

\* C10: when a request gives a terminal state and a blink duration, no
\* separate turn_on / turn_off step runs before gather_state or after
\* restore_state, and the last mutating device calls of a completed
\* invocation are those of restore_state.
C10_BlinkExclusive ==
  (blink_given /\ Found) =>
     /\ "direct" \notin ran
     /\ "blink" \in ran
     /\ (Done /\ result = "True" => last_mut_by = "restore_state")

C10_Witness ==
  /\ SessionCompleted
  /\ via_main
  /\ blink_given
  /\ switch_on
  /\ toggles > 0
  /\ Len(real) = 2
  /\ real = << FALSE, FALSE >>
  /\ last_mut_by = "restore_state"


\* C11: turn_on on the set followed by turn_off on the set, both without
\* failure (the first two toggle applications, and every later such pair),
\* leaves the relay and the refreshed is_on of every outlet off, whatever the
\* initial states were.
C11_OnThenOffIsOff ==
  (pc = "sleep" /\ toggles >= 2 /\ toggles % 2 = 0) =>
     \A i \in 1..Len(real) : real[i] = FALSE /\ cached[i] = FALSE

C11_Witness ==
  /\ pc = "sleep"
  /\ toggles = 2
  /\ orig = << TRUE, FALSE, TRUE >>
  /\ real = << FALSE, FALSE, FALSE >>
  /\ cached = real


\* C12: gather_state followed at once by restore_state on its result, with no
\* toggle application in between, leaves every outlet as it was before
\* gather_state: no relay differs from its earlier state at any step, and on
\* completion the refreshed is_on agrees as well.
C12_GatherRestoreRoundTrip ==
  ("gather_state" \in ran /\ toggles = 0) =>
     /\ real = orig
     /\ (SessionCompleted => cached = orig)

C12_Witness ==
  /\ SessionCompleted
  /\ toggles = 0
  /\ last_mut_by = "restore_state"
  /\ orig = << TRUE, FALSE, TRUE >>
  /\ real = orig


\* C13: whenever main_loop ends in failure (it returned False or an error
\* left it), the script exits with a non-zero status; status 0 is produced
\* only when main_loop succeeded.
C13_FailureExitsNonZero ==
  (pc = "exited" /\ result # "True") => Val(exit_status) # 0


\* Outlets whose relay was commanded and whose is_on was not refreshed since.
Unrefreshed == { j \in 1..Len(real) : cached[j] # real[j] }

\* The value every outlet held when the running pass over the set began.
BeforePass(j) ==
  IF toggles >= 2 /\ ctx = "blink" THEN op # "on"
  ELSE IF pc \in {"restore_cmd", "restore_upd"} /\ toggles >= 1
       THEN toggles % 2 = 1
       ELSE orig[j]

\* C14: in turn_on, turn_off, every toggle application and restore_state the
\* outlets are handled in set order, and the command to an outlet is followed
\* by its refresh before the next outlet is commanded: the outlets before the
\* current one hold the new value, those after it are untouched, and at most
\* the current outlet has a command that is not refreshed yet.
C14_SequentialCommandRefresh ==
  /\ Unrefreshed \subseteq
       (IF pc \in {"upd", "restore_upd"} \/ failed.call = "update"
        THEN {idx} ELSE {})
  /\ pc \in {"cmd", "upd"} =>
       \A j \in 1..Len(real) :
          real[j] = IF j < idx \/ (j = idx /\ pc = "upd")
                    THEN op = "on" ELSE BeforePass(j)
  /\ pc \in {"restore_cmd", "restore_upd"} =>
       \A j \in 1..Len(real) :
          real[j] = IF j < idx \/ (j = idx /\ pc = "restore_upd")
                    THEN save_state[j].state ELSE BeforePass(j)

C14_Witness ==
  /\ pc = "cmd"
  /\ ctx = "blink"
  /\ toggles = 2
  /\ idx = 3
  /\ real = << FALSE, FALSE, TRUE >>
  /\ cached = real


\* C15: the first toggle application turns every outlet on and the k-th one
\* (from 1) applies on for odd k and off for even k, whatever the captured
\* states and the requested terminal state are; every application after the
\* first starts when one asyncio.sleep(BLINK_DELAY_SECS) returns, and a sleep
\* is followed by the next application or by the end of the loop.
C15_TogglesAlternateFromOn ==
  /\ [](ctx = "blink" /\ pc \in {"cmd", "upd"} =>
          op = IF toggles % 2 = 1 THEN "on" ELSE "off")
  /\ [][toggles' # toggles =>
          /\ toggles' = toggles + 1
          /\ IF toggles = 0
             THEN pc = "gather" /\ elapsed' = 0
             ELSE pc = "sleep" /\ elapsed' = elapsed + BLINK_DELAY_SECS]_vars
  /\ [][pc = "sleep" /\ pc' = "cmd" => toggles' = toggles + 1]_vars

C15_Witness ==
  /\ ctx = "blink"
  /\ pc = "cmd"
  /\ toggles = 3
  /\ op = "on"
  /\ ~switch_on
  /\ orig = << TRUE, FALSE >>


\* C16: a blink session without failures terminates: no toggle application
\* starts once the elapsed time has reached minutes*60 seconds, the loop is
\* left at or after the deadline, after it restore_state passes once over the
\* snapshot with no further toggle, and the session reaches its end.
C16_SessionTerminates ==
  /\ [](ctx = "blink" /\ pc = "cmd" /\ idx = 1 => elapsed < DurationSeconds)
  /\ [](LoopExited => elapsed >= DurationSeconds)
  /\ [][LoopExited =>
          /\ toggles' = toggles
          /\ pc' \in {"restore_cmd", "restore_upd", "done", "exited"}
          /\ (pc' = "restore_cmd" /\ pc # "sleep" /\ pc # "gather" =>
                idx' = idx + 1)]_vars
  /\ ("gather_state" \in ran) ~> (SessionCompleted /\ LoopExited)

C16_Witness ==
  /\ SessionCompleted
  /\ LoopExited
  /\ blink_minutes = Some(1)
  /\ toggles = 12
  /\ elapsed = 60
  /\ Len(real) = 3

\* C17: if an outlet's refresh fails while gather_state is building the
\* snapshot, the session is aborted before any toggling: no turn_on / turn_off
\* (and no restore) command has been issued to any outlet, no toggle
\* application was started, every outlet has its pre-session state, and
\* main_loop has ended without returning True (plug_control returns False,
\* strip_control lets the error out of main_loop).
C17_CaptureFailureAborts ==
  failed.fn = "gather_state" =>
    /\ Done
    /\ result \in {"False", "raised"}
    /\ ~mut_issued
    /\ last_mut_by = "none"
    /\ toggles = 0
    /\ ran \cap {"toggle", "restore_state", "direct"} = {}
    /\ real = orig
    /\ Len(save_state) = failed.idx - 1

C17_Witness ==
  /\ failed = [fn |-> "gather_state", ctx |-> ctx, idx |-> 2,
               call |-> "update"]
  /\ Len(save_state) = 1
  /\ Len(real) = 3
  /\ \E i \in 1..Len(real) : real[i]
  /\ Done

\* The devices init can return: strip_control looks at the alias only of a
\* device with is_strip, plug_control only of a SmartPlug instance.
Resolvable(d) == d.kind = entry /\ d.alias = target
Scanning == pc \in {"scan", "scan_strip"}

\* C18 as stated: init returns the first device in enumeration order whose
\* alias equals the target alias, whatever the device is: the scan never moves
\* past a device that carries the alias, and None is returned (after a scan in
\* which no call failed) only when no discovered device carries the alias.
C18_FirstAliasMatchWins ==
  /\ Scanning => \A i \in 1..(fi - 1) : found[i].alias # target
  /\ (Done /\ discovered /\ ~Found /\ failed = NoFailure) => ~alias_seen

\* C18: init returns the first device in enumeration order that is of the
\* kind the script controls (a strip for strip_control, a SmartPlug for
\* plug_control) and whose alias equals the target alias exactly, with the
\* strip's children as the outlets or the plug itself as the single outlet;
\* it returns None only after the full scan, when no discovered device of
\* that kind carries the alias.
C18_FirstKindMatchWins ==
  /\ [](Scanning => \A i \in 1..(fi - 1) : ~Resolvable(found[i]))
  /\ []((Done /\ discovered /\ ~Found /\ failed = NoFailure) =>
          /\ fi \in {0, Len(found)}
          /\ \A i \in 1..Len(found) : ~Resolvable(found[i]))
  /\ [][strip_found' # strip_found =>
          /\ Scanning
          /\ strip_found = NoDevice
          /\ strip_found' = found[fi]
          /\ Resolvable(found[fi])
          /\ Len(real') \in (IF entry = "strip" THEN 1..MaxOutlets ELSE {1})
          /\ DOMAIN real' = 1..Len(real')]_vars

C18_Witness ==
  /\ entry = "strip"
  /\ Done
  /\ ~Found
  /\ result = "False"
  /\ failed = NoFailure
  /\ found = << [alias |-> "Lamp", kind |-> "strip"],
                [alias |-> "lamp", kind |-> "plug"] >>
  /\ fi = 2

\* C19: the captured snapshot is immutable for the whole session.  In every
\* state from the first toggle application on (toggling, restoring, and after
\* the session ended either way) the list of PlugState is the one gather_state
\* built: outlet i at position i with the state outlet i had at capture time,
\* whatever the live outlets and their cached states have become.
C19_SnapshotImmutable ==
  ("toggle" \in ran \/ "restore_state" \in ran) =>
    save_state = [i \in 1..Len(orig) |-> [plug |-> i, state |-> orig[i]]]

C19_Witness ==
  /\ pc = "restore_cmd"
  /\ idx = 2
  /\ Len(real) = 3
  /\ toggles = 12
  /\ real[2] # save_state[2].state
  /\ cached[2] # save_state[2].state
  /\ save_state[2].state # save_state[3].state

\* C20: main_loop never reports success after a problem.  Whenever main_loop
\* has returned True the target was found, no device call of the invocation
\* raised and the task was not cancelled; after a NotFound result or a failed
\* call the outcome is never True.
C20_TrueOnlyWithoutProblem ==
  /\ result = "True" => Found /\ failed = NoFailure /\ ~cancelled /\ Done
  /\ (Done /\ (~Found \/ failed # NoFailure)) => result # "True"

C20_Witness ==
  /\ Done
  /\ Found
  /\ failed.fn = "restore_state"
  /\ failed.call = "update"
  /\ failed.idx = Len(real)
  /\ real = orig
  /\ result # "True"

====
